---- MODULE Spec2Model ----
(***************************************************************************)
(* Model of the encrypted .env configuration store: EnvCrypto             *)
(* (env_crypto.py), the CLI handlers (config_cli.py) and the password     *)
(* change utility (change_password.py).                                    *)
(*                                                                         *)
(* Text is a sequence of one-character strings.  A Fernet key is a pair    *)
(* <<kind, name>>: <<"pw", p>> is the PBKDF2 key of password p,            *)
(* <<"rand", n>> the n-th key drawn by Fernet.generate_key().  A Fernet    *)
(* token is the pair (key, plaintext): it decrypts under exactly that key. *)
(* A file is a record; a write is two steps, open(..., 'wb') (which        *)
(* truncates) and the write of the data, so that a handler can be          *)
(* interrupted between them.                                               *)
(***************************************************************************)
EXTENDS Integers, Sequences, FiniteSets, TLC

VARIABLES plain, enc, keyf, nrand, pc, op, pre, res, w2, pure

vars == <<plain, enc, keyf, nrand, pc, op, pre, res, w2, pure>>

\* the files and the first process
store == <<plain, enc, keyf, nrand, pc, op, pre, res>>

(***************************************************************************)
(* Bounds                                                                  *)
(***************************************************************************)
MaxRand == 2

\* lines of a text handed to the parser
MaxLines == 4

\* entries of a ConfigSet handed to the serialiser
MaxEntries == 2

\* fragments a key name is put together from
MaxFrags == 2

(***************************************************************************)
(* Python str operations used by the codec                                 *)
(***************************************************************************)
NL == "\n"

IsSpace(c) == c \in {" ", NL}

RECURSIVE LStrip(_)
LStrip(s) == IF s # <<>> /\ IsSpace(Head(s)) THEN LStrip(Tail(s)) ELSE s

RECURSIVE RStrip(_)
RStrip(s) ==
    IF s # <<>> /\ IsSpace(s[Len(s)]) THEN RStrip(SubSeq(s, 1, Len(s) - 1)) ELSE s

Strip(s) == RStrip(LStrip(s))

\* position of the first occurrence of c in s, 0 when absent
RECURSIVE IndexOf(_, _)
IndexOf(s, c) ==
    IF s = <<>> THEN 0
    ELSE IF Head(s) = c THEN 1
    ELSE LET r == IndexOf(Tail(s), c) IN IF r = 0 THEN 0 ELSE r + 1

\* str.splitlines(): no empty last line after a final line break
RECURSIVE SplitLines(_)
SplitLines(s) ==
    IF s = <<>> THEN <<>>
    ELSE LET i == IndexOf(s, NL) IN
         IF i = 0 THEN <<s>>
         ELSE <<SubSeq(s, 1, i - 1)>> \o SplitLines(SubSeq(s, i + 1, Len(s)))

\* sep.join(parts)
RECURSIVE Join(_, _)
Join(parts, sep) ==
    IF parts = <<>> THEN <<>>
    ELSE IF Len(parts) = 1 THEN parts[1]
    ELSE parts[1] \o <<sep>> \o Join(Tail(parts), sep)

(***************************************************************************)
(* Python dict (insertion ordered): a sequence of <<key, value>> pairs     *)
(***************************************************************************)
RECURSIVE DictIndex(_, _)
DictIndex(d, k) ==
    IF d = <<>> THEN 0
    ELSE IF d[1][1] = k THEN 1
    ELSE LET r == DictIndex(Tail(d), k) IN IF r = 0 THEN 0 ELSE r + 1

DictHas(d, k) == DictIndex(d, k) # 0

DictGet(d, k) == d[DictIndex(d, k)][2]

\* variant: an existing key is deleted and inserted again, so it moves to the end
DictSetMovesKey(d, k, v) ==
    Append(SelectSeq(d, LAMBDA e : e[1] # k), <<k, v>>)

\* d[k] = v : an existing key keeps its slot, a new key goes last
DictSet(d, k, v) ==
    IF DictHas(d, k) THEN [d EXCEPT ![DictIndex(d, k)] = <<k, v>>]
    ELSE Append(d, <<k, v>>)

DictKeys(d) == [i \in 1..Len(d) |-> d[i][1]]

SeqHas(s, x) == \E i \in 1..Len(s) : s[i] = x

(***************************************************************************)
(* Keys, ciphers and files                                                 *)
(***************************************************************************)
NoKey == <<"none", "">>

BadKey == <<"bad", "">>

\* derive_key_from_password: PBKDF2 with the fixed salt, a function of the password
DeriveKey(password) == <<"pw", password>>

\* generate_random_key: the n-th key drawn from Fernet.generate_key()
RandomKey(n) == <<"rand", ToString(n)>>

\* Fernet(key) raises unless key is 32 url-safe base64-encoded bytes
ValidKey(k) == k[1] \in {"pw", "rand"}

\* variant: the cipher is built from a fresh key, not from the derived one
EnvCryptoFreshCipher(password, n) ==
    [key    |-> IF password # "" THEN DeriveKey(password) ELSE RandomKey(n + 1),
     cipher |-> RandomKey(n + 1)]

\* variant: the key is derived from the password also when it is empty
EnvCryptoDerivesEmpty(password, n) ==
    [key |-> DeriveKey(password), cipher |-> DeriveKey(password)]

\* EnvCrypto(password): key and cipher of the new instance; n counts the random keys drawn so far
EnvCrypto(password, n) ==
    IF password # ""
    THEN [key |-> DeriveKey(password), cipher |-> DeriveKey(password)]
    ELSE [key |-> RandomKey(n + 1), cipher |-> RandomKey(n + 1)]

\* number of random keys drawn by EnvCrypto(password)
Draws(password) == IF password # "" THEN 0 ELSE 1

AbsentFile == [st |-> "absent", key |-> NoKey, pt |-> <<>>]

EmptyFile == [st |-> "empty", key |-> NoKey, pt |-> <<>>]

PartialFile == [st |-> "partial", key |-> NoKey, pt |-> <<>>]

\* cipher.encrypt(data) written out in full
Token(cipher, data) == [st |-> "ct", key |-> cipher, pt |-> data]

\* the key file holding the raw key
KeyFileOf(key) == [st |-> "key", key |-> key, pt |-> <<>>]

\* cipher.decrypt(token): the plaintext, or InvalidToken
CipherDecrypt(cipher, token) ==
    IF token.st = "ct" /\ token.key = cipher THEN [ok |-> TRUE, text |-> token.pt]
    ELSE [ok |-> FALSE, text |-> <<>>]

\* os.path.exists
Exists(file) == file.st # "absent"

\* cipher.decrypt(bytes of file): InvalidToken unless the token was made under this key
CanDecrypt(cipher, file) == file.st = "ct" /\ file.key = cipher

\* load_key_from_file: self.key is assigned before Fernet(self.key) can raise
LoadKeyFromFile(crypto, kfile) ==
    IF ~Exists(kfile) THEN [crypto |-> crypto, ok |-> FALSE]
    ELSE LET k == IF kfile.st = "key" THEN kfile.key ELSE BadKey IN
         IF ValidKey(k)
         THEN [crypto |-> [key |-> k, cipher |-> k], ok |-> TRUE]
         ELSE [crypto |-> [key |-> k, cipher |-> crypto.cipher], ok |-> FALSE]

\* variant: the token is opened without checking it against the key
DecryptEnvFileNoAuth(cipher, file) ==
    IF file.st = "ct" THEN [ok |-> TRUE, text |-> file.pt]
    ELSE [ok |-> FALSE, text |-> <<>>]

\* decrypt_env_file(input_file), output_file=None: the text, or None on any exception
DecryptEnvFile(cipher, file) ==
    IF CanDecrypt(cipher, file) THEN [ok |-> TRUE, text |-> file.pt]
    ELSE [ok |-> FALSE, text |-> <<>>]

\* variant: only None counts as failure ("if content is None")
TruthyNotNone(content) == content.ok

\* Python truthiness of the value decrypt_env_file returns ("if not content")
Truthy(content) == content.ok /\ content.text # <<>>

(***************************************************************************)
(* The codec: get_env_values' parse loop and the two serialisers           *)
(***************************************************************************)
EmptySet == [dict |-> <<>>, order |-> <<>>]

\* variant: the key is appended to key_order without the "not in" test
ParseLineAlwaysAppends(acc, rawline) ==
    LET line == Strip(rawline)
        i    == IndexOf(line, "=")
    IN  IF line = <<>> \/ Head(line) = "#" THEN acc
        ELSE IF i = 0 THEN acc
        ELSE [dict  |-> DictSet(acc.dict, SubSeq(line, 1, i - 1), SubSeq(line, i + 1, Len(line))),
              order |-> Append(acc.order, SubSeq(line, 1, i - 1))]

\* variant: a key seen before keeps its first value
ParseLineKeepsFirst(acc, rawline) ==
    LET line == Strip(rawline)
        i    == IndexOf(line, "=")
    IN  IF line = <<>> \/ Head(line) = "#" THEN acc
        ELSE IF i = 0 THEN acc
        ELSE IF SeqHas(acc.order, SubSeq(line, 1, i - 1)) THEN acc
        ELSE [dict  |-> DictSet(acc.dict, SubSeq(line, 1, i - 1), SubSeq(line, i + 1, Len(line))),
              order |-> Append(acc.order, SubSeq(line, 1, i - 1))]

\* variant: the line is tested for "#" before it is stripped
ParseLineLateStrip(acc, rawline) ==
    LET line == Strip(rawline)
        i    == IndexOf(line, "=")
    IN  IF line = <<>> \/ Head(rawline) = "#" THEN acc
        ELSE IF i = 0 THEN acc
        ELSE [dict  |-> DictSet(acc.dict, SubSeq(line, 1, i - 1), SubSeq(line, i + 1, Len(line))),
              order |-> IF SeqHas(acc.order, SubSeq(line, 1, i - 1)) THEN acc.order
                        ELSE Append(acc.order, SubSeq(line, 1, i - 1))]

\* one iteration of the loop over content.splitlines()
ParseLine(acc, rawline) ==
    LET line == Strip(rawline)
        i    == IndexOf(line, "=")
    IN  IF line = <<>> \/ Head(line) = "#" THEN acc
        ELSE IF i = 0 THEN acc
        ELSE LET key   == SubSeq(line, 1, i - 1)
                 value == SubSeq(line, i + 1, Len(line))
             IN  [dict  |-> DictSet(acc.dict, key, value),
                  order |-> IF SeqHas(acc.order, key) THEN acc.order
                            ELSE Append(acc.order, key)]

RECURSIVE ParseLines(_, _)
ParseLines(acc, lines) ==
    IF lines = <<>> THEN acc ELSE ParseLines(ParseLine(acc, Head(lines)), Tail(lines))

ParseText(text) == ParseLines(EmptySet, SplitLines(text))

\* get_env_values: ({}, []) when the decrypted content is None or empty
GetEnvValues(cipher, file) ==
    LET content == DecryptEnvFile(cipher, file) IN
    IF ~Truthy(content) THEN EmptySet ELSE ParseText(content.text)

\* variant: blanks around the "="
FormatEntrySpaced(k, v) == k \o <<" ", "=", " ">> \o v

\* f"{k}={v}"
FormatEntry(k, v) == k \o <<"=">> \o v

\* '\n'.join([f"{k}={v}" for k, v in env_dict.items()])
SerializeItems(env_dict) ==
    Join([i \in 1..Len(env_dict) |-> FormatEntry(env_dict[i][1], env_dict[i][2])], NL)

\* all_keys = key_order.copy(), then every dict key not yet in it, in dict order
RECURSIVE AllKeys(_, _)
AllKeys(acc, ks) ==
    IF ks = <<>> THEN acc
    ELSE AllKeys(IF SeqHas(acc, Head(ks)) THEN acc ELSE Append(acc, Head(ks)), Tail(ks))

RECURSIVE FormatKeys(_, _)
FormatKeys(ks, env_dict) ==
    IF ks = <<>> THEN <<>>
    ELSE (IF DictHas(env_dict, Head(ks))
          THEN <<FormatEntry(Head(ks), DictGet(env_dict, Head(ks)))>>
          ELSE <<>>) \o FormatKeys(Tail(ks), env_dict)

\* variant: the lines are written in reverse key order
SetEnvValuesContentReversed(env_dict, key_order) ==
    LET ks == AllKeys(key_order, DictKeys(env_dict)) IN
    Join(FormatKeys([i \in 1..Len(ks) |-> ks[Len(ks) + 1 - i]], env_dict), NL)

\* set_env_values: the plaintext it encrypts
SetEnvValuesContent(env_dict, key_order) ==
    IF key_order # <<>>
    THEN Join(FormatKeys(AllKeys(key_order, DictKeys(env_dict)), env_dict), NL)
    ELSE SerializeItems(env_dict)

\* set_env_value: the plaintext it encrypts
SetEnvValueContent(env_dict, key, value) == SerializeItems(DictSet(env_dict, key, value))

(***************************************************************************)
(* Inputs                                                                  *)
(***************************************************************************)
Passwords == {"", "p", "q"}

PlainPaths == {".env", "in.env"}

NoPlain == [ex |-> FALSE, text |-> <<>>]

PlainOf(text) == [ex |-> TRUE, text |-> text]

\* a comment, an indented line, a line without "=", a value holding "=", a repeated key
\* and a final line break: keys N, A in that order, N = 3, A = 1=x
TextMixed ==
    <<"#", "c", NL, " ", "N", "=", "2", NL, "n", "o", NL,
      "A", "=", "1", "=", "x", NL, "N", "=", "3", NL>>

TextC == <<"C", "=", "3">>

\* a file with a comment and no entry
TextComment == <<"#", "c">>

PlainChoices == {NoPlain, PlainOf(TextMixed), PlainOf(TextC), PlainOf(TextComment)}

\* what the working directory holds as .env and as the file offered for import
EnvChoices == {NoPlain, PlainOf(TextMixed)}

InChoices == {PlainOf(TextC), PlainOf(TextComment)}

\* a key present in TextMixed and absent from TextC, and a key the parser reads as a comment
SetKeys == {<<"N">>, <<"#", "N">>}

\* keys asked for by get: one in TextMixed only, one in TextC only
GetKeys == {<<"N">>, <<"C">>}

\* a plain value and a value ending in a blank, which line.strip() cuts
SetValues == {<<"1">>, <<"2", " ">>}

(***************************************************************************)
(* State                                                                   *)
(***************************************************************************)
NoCrypto == [key |-> NoKey, cipher |-> NoKey]

NoOp ==
    [name |-> "none", pw |-> "", newpw |-> "", confirm |-> "", force |-> FALSE,
     input |-> "", usekf |-> FALSE, key |-> <<>>, val |-> <<>>,
     show |-> FALSE, env |-> EmptySet, out |-> "", shown |-> <<>>,
     crypto |-> NoCrypto, data |-> AbsentFile, at |-> "idle"]

\* the second process, not started
NoW2 ==
    [pc |-> "idle", pw |-> "", key |-> <<>>, val |-> <<>>, crypto |-> NoCrypto,
     read |-> AbsentFile, data |-> AbsentFile, res |-> "none", late |-> FALSE]

\* no function under test
NoPure ==
    [kind |-> "none", stage |-> "idle", text |-> <<>>, set |-> EmptySet, out |-> EmptySet,
     pw |-> "", first |-> NoCrypto, tok |-> AbsentFile, same |-> <<>>, other |-> <<>>,
     name |-> <<>>, cls |-> <<>>, ret |-> "none"]

StoreInit ==
    /\ plain \in {f \in [PlainPaths -> PlainChoices] :
                     f[".env"] \in EnvChoices /\ f["in.env"] \in InChoices}
    /\ enc = AbsentFile
    /\ keyf = AbsentFile
    /\ nrand = 0
    /\ pc = "idle"
    /\ op = NoOp
    /\ pre = [enc |-> AbsentFile, keyf |-> AbsentFile]
    /\ res = "none"

Init == StoreInit /\ w2 = NoW2 /\ pure = NoPure

\* the handler starts: remember the files as it found them
Begin(o, draws) ==
    /\ pc = "idle"
    /\ nrand + draws <= MaxRand
    /\ nrand' = nrand + draws
    /\ op' = o
    /\ pre' = [enc |-> enc, keyf |-> keyf]
    /\ UNCHANGED <<plain, enc, keyf, w2, pure>>

\* the handler returns r without touching a file in this step
Return(r) == pc' = "done" /\ res' = r

\* the handler goes on to write the encrypted file
GoWrite == pc' = "enc_open" /\ res' = "none"

(***************************************************************************)
(* The masking rule: any(secret in key.lower() for secret in [...])        *)
(***************************************************************************)
UpperCase ==
    <<"A", "B", "C", "D", "E", "F", "G", "H", "I", "J", "K", "L", "M",
      "N", "O", "P", "Q", "R", "S", "T", "U", "V", "W", "X", "Y", "Z">>

LowerCase ==
    <<"a", "b", "c", "d", "e", "f", "g", "h", "i", "j", "k", "l", "m",
      "n", "o", "p", "q", "r", "s", "t", "u", "v", "w", "x", "y", "z">>

\* str.lower() on one character
LowerChar(c) ==
    IF \E i \in 1..26 : UpperCase[i] = c
    THEN LowerCase[CHOOSE i \in 1..26 : UpperCase[i] = c]
    ELSE c

\* str.lower()
Lower(s) == [i \in 1..Len(s) |-> LowerChar(s[i])]

\* s.startswith(w)
StartsWith(s, w) == Len(w) <= Len(s) /\ SubSeq(s, 1, Len(w)) = w

\* w in s, for strings
RECURSIVE Contains(_, _)
Contains(s, w) ==
    IF StartsWith(s, w) THEN TRUE
    ELSE IF s = <<>> THEN FALSE
    ELSE Contains(Tail(s), w)

WordPassword == <<"p", "a", "s", "s", "w", "o", "r", "d">>

WordSecret == <<"s", "e", "c", "r", "e", "t">>

WordKey == <<"k", "e", "y">>

WordToken == <<"t", "o", "k", "e", "n">>

\* any(secret in name for secret in words)
AnyIn(name, words) == \E i \in 1..Len(words) : Contains(name, words[i])

\* view_config's test
CliViewSensitive(key) ==
    AnyIn(Lower(key), <<WordPassword, WordSecret, WordKey, WordToken>>)

\* get_config_value's test
CliGetSensitive(key) ==
    AnyIn(Lower(key), <<WordPassword, WordSecret, WordKey, WordToken>>)

\* variant: the menu compares without lowering the key
MenuSensitiveCaseBound(key) ==
    AnyIn(key, <<WordPassword, WordSecret, WordKey, WordToken>>)

\* ConfigMenu.view_all_values' test
MenuSensitive(key) ==
    AnyIn(Lower(key), <<WordPassword, WordSecret, WordKey, WordToken>>)

\* '*' * 8
Mask == <<"*", "*", "*", "*", "*", "*", "*", "*">>

(***************************************************************************)
(* config_cli.py                                                           *)
(***************************************************************************)
\* variant: the default .env is read whatever input_file says
ReadInputDefault(input_file) == plain[".env"]

\* with open(input_file, 'rb')
ReadInput(input_file) == plain[input_file]

\* variant: the force flag is not consulted the right way round
DestBlockedInverted(force) == Exists(enc) /\ force

\* os.path.exists('.env.enc') and not args.force
DestBlocked(force) == Exists(enc) /\ ~force

\* init_config
InitConfig ==
    \E password \in Passwords, force \in BOOLEAN :
      LET crypto == EnvCrypto(password, nrand)
          src    == ReadInput(".env")
          o      == [NoOp EXCEPT !.name = "init", !.pw = password, !.force = force,
                                 !.input = ".env", !.crypto = crypto,
                                 !.data = Token(crypto.cipher, src.text)]
      IN  /\ Begin(o, Draws(password))
          /\ IF DestBlocked(force) THEN Return("fail")
             ELSE IF ~src.ex THEN Return("fail")
             ELSE GoWrite

\* import_config
ImportConfig ==
    \E password \in Passwords, input_file \in PlainPaths, force \in BOOLEAN :
      LET crypto == EnvCrypto(password, nrand)
          src    == ReadInput(input_file)
          o      == [NoOp EXCEPT !.name = "import", !.pw = password, !.force = force,
                                 !.input = input_file, !.crypto = crypto,
                                 !.data = Token(crypto.cipher, src.text)]
      IN  /\ Begin(o, Draws(password))
          /\ IF ~plain[input_file].ex THEN Return("fail")
             ELSE IF DestBlocked(force) THEN Return("fail")
             ELSE IF ~src.ex THEN Return("fail")
             ELSE GoWrite

\* set_env_value's "if env_dict is None": get_env_values never returns None
IsNone(env_dict) == FALSE

\* set_config_value, with or without --key-file .env.key
SetConfigValue ==
    \E password \in Passwords, usekf \in BOOLEAN, key \in SetKeys, value \in SetValues :
      LET made     == EnvCrypto(password, nrand)
          crypto   == IF usekf /\ Exists(keyf) THEN LoadKeyFromFile(made, keyf).crypto
                      ELSE made
          env_dict == GetEnvValues(crypto.cipher, enc).dict
          o        == [NoOp EXCEPT !.name = "set", !.pw = password, !.usekf = usekf,
                                   !.key = key, !.val = value, !.crypto = crypto,
                                   !.data = Token(crypto.cipher,
                                                  SetEnvValueContent(env_dict, key, value))]
      IN  /\ Begin(o, Draws(password))
          /\ IF IsNone(env_dict) THEN Return("fail") ELSE GoWrite

\* "not env_values": get_env_values returns a pair, and a pair is never falsy
NotTuple(env_values) == FALSE

\* "args.key in env_values": the members of the pair are a dict and a list,
\* and a str equals neither
InTuple(key, env_values) == FALSE

\* get_config_value, with or without --key-file .env.key
GetConfigValue ==
    \E password \in Passwords, usekf \in BOOLEAN, key \in GetKeys, show \in BOOLEAN :
      LET made       == EnvCrypto(password, nrand)
          crypto     == IF usekf /\ Exists(keyf) THEN LoadKeyFromFile(made, keyf).crypto
                        ELSE made
          env_values == GetEnvValues(crypto.cipher, enc)
          out        == IF NotTuple(env_values) THEN "decrypt_failed"
                        ELSE IF InTuple(key, env_values) THEN "value"
                        ELSE "not_found"
          shown      == IF out # "value" THEN <<>>
                        ELSE IF ~show /\ CliGetSensitive(key) THEN Mask
                        ELSE DictGet(env_values.dict, key)
          o          == [NoOp EXCEPT !.name = "get", !.pw = password, !.usekf = usekf,
                                     !.key = key, !.show = show, !.crypto = crypto,
                                     !.env = env_values, !.out = out, !.shown = shown]
      IN  /\ Begin(o, Draws(password))
          /\ Return(IF out = "value" THEN "ok" ELSE "fail")

(***************************************************************************)
(* change_password.py                                                      *)
(***************************************************************************)
\* variant: the empty new password is let through
RekeyRefusesNoEmptyCheck(content, new_password, confirm_password) ==
    \/ ~Truthy(content)
    \/ new_password # confirm_password

\* the three refusals of change_password after the file was found
RekeyRefuses(content, new_password, confirm_password) ==
    \/ ~Truthy(content)
    \/ new_password # confirm_password
    \/ new_password = ""

\* what change_password prints last
RekeyMessage(content, new_password, confirm_password) ==
    IF ~Exists(enc) THEN "not_found"
    ELSE IF ~Truthy(content) THEN "decrypt_failed"
    ELSE IF new_password # confirm_password THEN "mismatch"
    ELSE IF new_password = "" THEN "empty"
    ELSE "changed"

\* the key new_crypto encrypts with
RekeyCrypto(crypto, new_password, n) == EnvCrypto(new_password, n)

\* variant: the old instance's key is written
RekeyFileKeyOld(crypto, new_crypto) == crypto.key

\* the key written to the key file
RekeyFileKey(crypto, new_crypto) == new_crypto.key

\* change_password
ChangePassword ==
    \E current \in Passwords, new_password \in Passwords, confirm \in Passwords :
      LET crypto     == EnvCrypto(current, nrand)
          content    == DecryptEnvFile(crypto.cipher, enc)
          refused    == ~Exists(enc) \/ RekeyRefuses(content, new_password, confirm)
          env        == GetEnvValues(crypto.cipher, enc)
          new_crypto == RekeyCrypto(crypto, new_password, nrand + Draws(current))
          draws      == IF ~Exists(enc) THEN 0
                        ELSE IF refused THEN Draws(current)
                        ELSE Draws(current) + Draws(new_password)
          o          == [NoOp EXCEPT !.name = "rekey", !.pw = current, !.newpw = new_password,
                                     !.confirm = confirm,
                                     !.out = RekeyMessage(content, new_password, confirm),
                                     !.crypto = IF refused THEN crypto
                                                ELSE [key    |-> RekeyFileKey(crypto, new_crypto),
                                                      cipher |-> new_crypto.cipher],
                                     !.data = Token(new_crypto.cipher,
                                                    SetEnvValuesContent(env.dict, env.order))]
      IN  /\ Begin(o, draws)
          /\ IF refused THEN Return("fail") ELSE GoWrite

(***************************************************************************)
(* config_menu.py: load_config in a new menu session                       *)
(***************************************************************************)
\* the attributes an EnvCrypto instance has: __init__ and the methods it calls assign these only
EnvCryptoAttrs == {"key", "password", "cipher"}

\* reading crypto.<name> raises AttributeError unless the instance has the attribute
HasAttr(name) == name \in EnvCryptoAttrs

\* ConfigMenu.load_config with self.crypto unset: initialize_crypto, then the read of the store.
\* op.pw, op.crypto and op.env are the session's password, crypto and env_values afterwards.
MenuLoadConfig ==
    \E password \in Passwords :
      LET crypto       == EnvCrypto(password, nrand)
          test_content == DecryptEnvFile(crypto.cipher, enc)
          init_raises  == /\ Exists(enc) /\ Exists(keyf)
                          /\ Truthy(test_content)
                          /\ ~HasAttr("password_valid")
          load_raises  == Exists(enc) /\ ~HasAttr("password_valid")
          env_values   == IF Exists(enc) /\ ~init_raises THEN GetEnvValues(crypto.cipher, enc)
                          ELSE EmptySet
          o            == [NoOp EXCEPT !.name = "menu_load", !.pw = password,
                                       !.crypto = crypto, !.env = env_values]
      IN  /\ Begin(o, Draws(password))
          /\ IF init_raises \/ load_raises THEN Return("raise")
             ELSE IF ~Exists(enc) THEN Return("fail")
             ELSE Return(IF Len(env_values.dict) > 0 THEN "ok" ELSE "fail")

(***************************************************************************)
(* load_env.py                                                             *)
(***************************************************************************)
\* load_encrypted_env(password=...): the key file is loaded only without a password
LoadEncryptedEnv ==
    \E password \in Passwords :
      LET made       == EnvCrypto(password, nrand)
          crypto     == IF password = "" /\ Exists(keyf) THEN LoadKeyFromFile(made, keyf).crypto
                        ELSE made
          env_values == GetEnvValues(crypto.cipher, enc)
          o          == [NoOp EXCEPT !.name = "load", !.pw = password, !.crypto = crypto,
                                     !.usekf = (password = "" /\ Exists(keyf)),
                                     !.env = env_values]
      IN  /\ Begin(o, Draws(password))
          /\ Return(IF env_values.dict = <<>> THEN "fail" ELSE "ok")

(***************************************************************************)
(* regenerate_key.py                                                       *)
(***************************************************************************)
\* the refusals of regenerate_key.main: no store, an empty password, or a
\* store the password-derived cipher does not decrypt
RegenRefuses(password) ==
    \/ ~Exists(enc)
    \/ password = ""
    \/ ~CipherDecrypt(DeriveKey(password), enc).ok

\* regenerate_key.main
RegenerateKey ==
    \E password \in Passwords :
      LET o == [NoOp EXCEPT !.name = "regen", !.pw = password,
                            !.crypto = IF ~Exists(enc) \/ password = "" THEN NoCrypto
                                       ELSE EnvCrypto(password, nrand)]
      IN  /\ Begin(o, 0)
          /\ IF RegenRefuses(password) THEN Return("fail")
             ELSE pc' = "key_open" /\ res' = "none"

(***************************************************************************)
(* The writes: with open(path, 'wb') as f: f.write(data)                   *)
(***************************************************************************)
\* change_password updates the key file only if it exists; encrypt_env_file always writes it
WritesKeyFile == op.name \in {"init", "import"} \/ (op.name = "rekey" /\ Exists(keyf))

\* open(output_file, 'wb') truncates the encrypted file
EncOpen ==
    /\ pc = "enc_open"
    /\ enc' = EmptyFile
    /\ pc' = "enc_write"
    /\ UNCHANGED <<plain, keyf, nrand, op, pre, res, w2, pure>>

\* open raises (no permission): every handler catches it and returns False
EncOpenFail ==
    /\ pc = "enc_open"
    /\ Return("fail")
    /\ UNCHANGED <<plain, enc, keyf, nrand, op, pre, w2, pure>>

\* f.write(encrypted_data) and close
EncWrite ==
    /\ pc = "enc_write"
    /\ enc' = op.data
    /\ IF WritesKeyFile THEN pc' = "key_open" /\ res' = res ELSE Return("ok")
    /\ UNCHANGED <<plain, keyf, nrand, op, pre, w2, pure>>

\* the write raises (disk full): caught, False returned, the file already truncated
EncWriteFail ==
    /\ pc = "enc_write"
    /\ enc' \in {EmptyFile, PartialFile}
    /\ Return("fail")
    /\ UNCHANGED <<plain, keyf, nrand, op, pre, w2, pure>>

\* open('.env.key', 'wb') truncates the key file
KeyOpen ==
    /\ pc = "key_open"
    /\ keyf' = EmptyFile
    /\ pc' = "key_write"
    /\ UNCHANGED <<plain, enc, nrand, op, pre, res, w2, pure>>

\* open raises: encrypt_env_file catches it, change_password does not
KeyOpenFail ==
    /\ pc = "key_open"
    /\ Return(IF op.name = "rekey" THEN "raise" ELSE "fail")
    /\ UNCHANGED <<plain, enc, keyf, nrand, op, pre, w2, pure>>

\* f.write(self.key) and close; the handler returns True
KeyWrite ==
    /\ pc = "key_write"
    /\ keyf' = KeyFileOf(op.crypto.key)
    /\ Return("ok")
    /\ UNCHANGED <<plain, enc, nrand, op, pre, w2, pure>>

\* the process is killed where it stands; a write in progress may be left partial
Kill ==
    /\ pc \notin {"idle", "done"}
    /\ enc' \in IF pc = "enc_write" THEN {enc, PartialFile} ELSE {enc}
    /\ keyf' \in IF pc = "key_write" THEN {keyf, PartialFile} ELSE {keyf}
    /\ op' = [op EXCEPT !.at = pc]
    /\ Return("killed")
    /\ UNCHANGED <<plain, nrand, pre, w2, pure>>

\* the process ends and its variables with it; the files stay
Exit ==
    /\ pc = "done"
    /\ pc' = "idle"
    /\ op' = NoOp
    /\ pre' = [enc |-> AbsentFile, keyf |-> AbsentFile]
    /\ res' = "none"
    /\ UNCHANGED <<plain, enc, keyf, nrand, w2, pure>>

Next ==
    \/ InitConfig
    \/ ImportConfig
    \/ SetConfigValue
    \/ ChangePassword
    \/ GetConfigValue
    \/ RegenerateKey
    \/ MenuLoadConfig
    \/ LoadEncryptedEnv
    \/ EncOpen
    \/ EncOpenFail
    \/ EncWrite
    \/ EncWriteFail
    \/ KeyOpen
    \/ KeyOpenFail
    \/ KeyWrite
    \/ Kill
    \/ Exit

Spec == Init /\ [][Next]_vars

(***************************************************************************)
(* A second process running "config set" against the same directory         *)
(***************************************************************************)
W2Keys == {<<"C">>, <<"N">>}

W2Values == {<<"9">>}

\* set_config_value up to the re-encryption: get_env_values, env_dict[key] = value, join, encrypt
W2Set ==
    \E password \in Passwords, key \in W2Keys, value \in W2Values :
      LET crypto   == EnvCrypto(password, nrand)
          env_dict == GetEnvValues(crypto.cipher, enc).dict
      IN  /\ w2.pc = "idle"
          /\ nrand + Draws(password) <= MaxRand
          /\ nrand' = nrand + Draws(password)
          /\ w2' = [NoW2 EXCEPT !.pc = IF IsNone(env_dict) THEN "done" ELSE "enc_open",
                                !.res = IF IsNone(env_dict) THEN "fail" ELSE "none",
                                !.pw = password, !.key = key, !.val = value,
                                !.crypto = crypto, !.read = enc,
                                !.data = Token(crypto.cipher,
                                               SetEnvValueContent(env_dict, key, value))]
          /\ UNCHANGED <<plain, enc, keyf, pc, op, pre, res, pure>>

\* its open(input_file, 'wb') truncates the encrypted file
W2EncOpen ==
    /\ w2.pc = "enc_open"
    /\ enc' = EmptyFile
    /\ w2' = [w2 EXCEPT !.pc = "enc_write"]
    /\ UNCHANGED <<plain, keyf, nrand, pc, op, pre, res, pure>>

\* variant: the write is given up when the other set has replaced the file meanwhile
W2EncWriteKeepsNewer ==
    /\ w2.pc = "enc_write"
    /\ enc' = IF pc = "done" /\ op.name = "set" THEN op.data ELSE w2.data
    /\ w2' = [w2 EXCEPT !.pc = "done", !.res = "ok", !.late = (pc = "done")]
    /\ UNCHANGED <<plain, keyf, nrand, pc, op, pre, res, pure>>

\* its f.write(encrypted_data) and close, and the True it returns; late says
\* that the first process had completed its own write by then
W2EncWrite ==
    /\ w2.pc = "enc_write"
    /\ enc' = w2.data
    /\ w2' = [w2 EXCEPT !.pc = "done", !.res = "ok", !.late = (pc = "done")]
    /\ UNCHANGED <<plain, keyf, nrand, pc, op, pre, res, pure>>

\* the directory after "config init --password p" on the .env file
InitConc ==
    /\ plain = [f \in PlainPaths |-> IF f = ".env" THEN PlainOf(TextMixed) ELSE PlainOf(TextC)]
    /\ enc = Token(DeriveKey("p"), TextMixed)
    /\ keyf = KeyFileOf(DeriveKey("p"))
    /\ nrand = 0
    /\ pc = "idle"
    /\ op = NoOp
    /\ pre = [enc |-> AbsentFile, keyf |-> AbsentFile]
    /\ res = "none"
    /\ w2 = NoW2
    /\ pure = NoPure

\* two processes, each running one "config set"
NextConc ==
    \/ SetConfigValue
    \/ EncOpen
    \/ EncWrite
    \/ W2Set
    \/ W2EncOpen
    \/ W2EncWrite

SpecConc == InitConc /\ [][NextConc]_vars

(***************************************************************************)
(* The functions on their own: parse, serialise, encrypt and decrypt, and   *)
(* the masking rule, applied to inputs drawn from bounded sets              *)
(***************************************************************************)
SeqsUpTo(S, n) == UNION {[1..k -> S] : k \in 0..n}

\* the lines texts are made of: entries, a repeated key, an indented comment
\* holding "=", an empty and a blank line, a line without "=", an indented
\* entry whose value holds "=" and ends in a blank
TextLines ==
    { <<"A", "=", "1">>, <<"B", "=", "2">>, <<"A", "=", "3">>, <<"C", "=", "4">>,
      <<" ", "#", "A", "=", "5">>, <<>>, <<" ">>, <<"n", "o">>,
      <<" ", "B", "=", "6", "=", "x", " ">> }

Texts == {Join(ls, NL) : ls \in SeqsUpTo(TextLines, MaxLines)}

SetEntryKeys == {<<"A">>, <<"B">>, <<"#", "A">>, <<" ", "A">>, <<>>, <<"A", "=", "B">>}

SetEntryValues == {<<"1">>, <<>>, <<"1", "=", "2">>, <<"1", " ">>, <<"1", NL, "B", "=", "2">>}

\* the ConfigSets: entries with distinct keys, the key order that of the entries
ConfigSets ==
    { [dict |-> d, order |-> DictKeys(d)] :
        d \in { e \in SeqsUpTo(SetEntryKeys \X SetEntryValues, MaxEntries) :
                  \A i, j \in 1..Len(e) : e[i][1] = e[j][1] => i = j } }

NameFrags ==
    { <<"k", "e", "y">>, <<"K", "E", "Y">>, <<"K", "e">>, <<"y">>,
      <<"t", "o", "k", "e", "n">>, <<"T", "O", "K">>, <<"e", "n">>,
      <<"S", "e", "c", "r", "e", "t">>, <<"s", "e", "c">>, <<"r", "e", "t">>,
      <<"p", "a", "s", "s">>, <<"W", "O", "R", "D">>,
      <<"P", "a", "s", "s", "w", "o", "r", "d">>, <<"_">>, <<"x">> }

RECURSIVE Concat(_)
Concat(fs) == IF fs = <<>> THEN <<>> ELSE Head(fs) \o Concat(Tail(fs))

Names == {Concat(fs) : fs \in SeqsUpTo(NameFrags, MaxFrags)}

PlainTexts == TextLines \cup {TextMixed}

PureInputs ==
    {[NoPure EXCEPT !.kind = "text", !.stage = "text", !.text = t] : t \in Texts}
    \cup {[NoPure EXCEPT !.kind = "set", !.stage = "set", !.set = c] : c \in ConfigSets}
    \cup {[NoPure EXCEPT !.kind = "crypt", !.stage = "plain", !.pw = p, !.text = t] :
            p \in Passwords, t \in PlainTexts}
    \cup {[NoPure EXCEPT !.kind = "name", !.stage = "name", !.name = n] : n \in Names}

InitPure ==
    /\ StoreInit
    /\ plain[".env"] = NoPlain
    /\ plain["in.env"] = PlainOf(TextC)
    /\ w2 = NoW2
    /\ pure \in PureInputs

\* the parse loop of get_env_values on the text
PureParse ==
    /\ pure.stage = "text"
    /\ pure' = [pure EXCEPT !.stage = "parsed", !.out = ParseText(pure.text)]
    /\ UNCHANGED <<store, w2>>

\* set_env_values' conversion of the set to text
PureSerialize ==
    /\ pure.stage = "set"
    /\ pure' = [pure EXCEPT !.stage = "text",
                            !.text = SetEnvValuesContent(pure.set.dict, pure.set.order)]
    /\ UNCHANGED <<store, w2>>

\* crypto = EnvCrypto(password); crypto.cipher.encrypt(data)
PureEncrypt ==
    /\ pure.stage = "plain"
    /\ LET crypto == EnvCrypto(pure.pw, 0) IN
       pure' = [pure EXCEPT !.stage = "token", !.first = crypto,
                            !.tok = Token(crypto.cipher, pure.text)]
    /\ UNCHANGED <<store, w2>>

\* decrypt with the instance that encrypted and with one built afterwards from the password
PureDecrypt ==
    /\ pure.stage = "token"
    /\ pure' = [pure EXCEPT !.stage = "decrypted",
                            !.same = CipherDecrypt(pure.first.cipher, pure.tok),
                            !.other = CipherDecrypt(EnvCrypto(pure.pw, 1).cipher, pure.tok)]
    /\ UNCHANGED <<store, w2>>

\* the three places that decide whether a value is masked
PureClassify ==
    /\ pure.stage = "name"
    /\ pure' = [pure EXCEPT !.stage = "classified",
                            !.cls = <<CliViewSensitive(pure.name), CliGetSensitive(pure.name),
                                      MenuSensitive(pure.name)>>]
    /\ UNCHANGED <<store, w2>>

NextPure ==
    \/ PureParse
    \/ PureSerialize
    \/ PureEncrypt
    \/ PureDecrypt
    \/ PureClassify

SpecPure == InitPure /\ [][NextPure]_vars

(***************************************************************************)
(* One EnvCrypto instance and the calls that set its key: pure.first is the *)
(* instance and pure.pw its password attribute, pure.stage the last call,   *)
(* pure.tok the key file it was given and pure.ret what it returned         *)
(***************************************************************************)
\* the key files load_key_from_file may be pointed at: none, a truncated one,
\* a partly written one, and files holding a key
KeyFiles ==
    {AbsentFile, EmptyFile, PartialFile, KeyFileOf(DeriveKey("p")), KeyFileOf(DeriveKey("q")),
     KeyFileOf(RandomKey(1))}

InitInst ==
    /\ StoreInit
    /\ plain[".env"] = NoPlain
    /\ plain["in.env"] = PlainOf(TextC)
    /\ w2 = NoW2
    /\ pure = [NoPure EXCEPT !.kind = "inst", !.stage = "new"]

\* what every call leaves alone
InstFrame == UNCHANGED <<plain, enc, keyf, pc, op, pre, res, w2>>

\* crypto = EnvCrypto(password)
InstConstruct ==
    \E password \in Passwords :
      /\ pure.stage = "new"
      /\ nrand + Draws(password) <= MaxRand
      /\ nrand' = nrand + Draws(password)
      /\ pure' = [pure EXCEPT !.stage = "construct", !.pw = password,
                              !.first = EnvCrypto(password, nrand)]
      /\ InstFrame

\* crypto.derive_key_from_password(password): key and cipher from the password, empty or not
InstDerive ==
    \E password \in Passwords :
      /\ pure.stage # "new"
      /\ pure' = [pure EXCEPT !.stage = "derive", !.pw = password, !.tok = AbsentFile,
                              !.ret = "none",
                              !.first = [key |-> DeriveKey(password),
                                         cipher |-> DeriveKey(password)]]
      /\ nrand' = nrand
      /\ InstFrame

\* crypto.generate_random_key()
InstGenerate ==
    /\ pure.stage # "new"
    /\ nrand + 1 <= MaxRand
    /\ nrand' = nrand + 1
    /\ pure' = [pure EXCEPT !.stage = "generate", !.tok = AbsentFile,
                            !.ret = "none",
                            !.first = [key |-> RandomKey(nrand + 1),
                                       cipher |-> RandomKey(nrand + 1)]]
    /\ InstFrame

\* crypto.change_password(new_password) calls derive_key_from_password
InstChangePassword ==
    \E new_password \in Passwords :
      /\ pure.stage # "new"
      /\ pure' = [pure EXCEPT !.stage = "change", !.pw = new_password, !.tok = AbsentFile,
                              !.ret = "none",
                              !.first = [key |-> DeriveKey(new_password),
                                         cipher |-> DeriveKey(new_password)]]
      /\ nrand' = nrand
      /\ InstFrame

\* crypto.load_key_from_file(key_file)
InstLoadKey ==
    \E key_file \in KeyFiles :
      /\ pure.stage # "new"
      /\ pure' = [pure EXCEPT !.stage = "load", !.tok = key_file,
                              !.ret = IF LoadKeyFromFile(pure.first, key_file).ok
                                      THEN "true" ELSE "false",
                              !.first = LoadKeyFromFile(pure.first, key_file).crypto]
      /\ nrand' = nrand
      /\ InstFrame

NextInst ==
    \/ InstConstruct
    \/ InstDerive
    \/ InstGenerate
    \/ InstChangePassword
    \/ InstLoadKey

SpecInst == InitInst /\ [][NextInst]_vars

(***************************************************************************)
(* Properties                                                              *)
(***************************************************************************)
\* the handler has returned True or False
Returned == pc = "done" /\ res \in {"ok", "fail"}

\* the password opens the file: a handle built from it decrypts the token
Opens(password, file) == password # "" /\ CanDecrypt(DeriveKey(password), file)

\* the running or last handler is a rekey that passed every check of change_password
RekeyStarted ==
    /\ op.name = "rekey"
    /\ Opens(op.pw, pre.enc)
    /\ pre.enc.pt # <<>>
    /\ op.newpw = op.confirm
    /\ op.newpw # ""

\* what a handle with this cipher reads from the file before and after the handler
Before(cipher) == GetEnvValues(cipher, pre.enc)

After(cipher) == GetEnvValues(cipher, enc)

\* C1: at every point during and after a rekey, interrupted or not, the
\* encrypted file is decryptable by the old or by the new password.
C1_RekeyOldOrNew ==
    RekeyStarted => (Opens(op.pw, enc) \/ Opens(op.newpw, enc))

\* C2: a rekey that fails or is interrupted after the old store was decrypted
\* and before the new ciphertext is completely written leaves the file
\* decryptable by the old password.
C2_RekeyFailureKeepsOld ==
    ( /\ RekeyStarted
      /\ pc = "done"
      /\ \/ res = "fail"
         \/ res = "killed" /\ op.at \in {"enc_open", "enc_write"} )
    => Opens(op.pw, enc)

\* C3: rekey returns failure and leaves the encrypted file and the key file as
\* they were whenever the current password does not decrypt the store, the new
\* password is empty, or new and confirm differ.
C3_RekeyRefusal ==
    ( /\ op.name = "rekey"
      /\ \/ ~Opens(op.pw, pre.enc)
         \/ op.newpw = ""
         \/ op.newpw # op.confirm )
    => (pc = "done" /\ res = "fail" /\ enc = pre.enc /\ keyf = pre.keyf)

C3_Witness ==
    /\ pc = "done" /\ op.name = "rekey" /\ res = "fail"
    /\ Opens(op.pw, pre.enc) /\ pre.enc.pt # <<>>
    /\ op.newpw = "" /\ op.confirm = ""

\* C4: when rekey returns success the file decrypts under the key derived from
\* the new password, and reading it gives the mapping and the key order the
\* store had under the old password just before.
C4_RekeyPreserves ==
    (pc = "done" /\ op.name = "rekey" /\ res = "ok")
    => /\ Opens(op.newpw, enc)
       /\ After(DeriveKey(op.newpw)) = Before(DeriveKey(op.pw))

C4_Witness ==
    /\ pc = "done" /\ op.name = "rekey" /\ res = "ok"
    /\ Len(Before(DeriveKey(op.pw)).order) >= 2
    /\ op.newpw # op.pw

\* C5: after a successful rekey a key file that existed before holds exactly
\* the key derived from the new password, which decrypts the new store; if
\* there was no key file, there is none afterwards.
C5_RekeyKeyFile ==
    (pc = "done" /\ op.name = "rekey" /\ res = "ok")
    => IF Exists(pre.keyf)
       THEN keyf = KeyFileOf(DeriveKey(op.newpw)) /\ CanDecrypt(keyf.key, enc)
       ELSE keyf = AbsentFile

C5_Witness ==
    /\ pc = "done" /\ op.name = "rekey" /\ res = "ok"
    /\ pre.keyf.st = "key" /\ pre.keyf.key # DeriveKey(op.newpw)

\* C6: when the existing store cannot be decrypted with the handle's key, set
\* returns failure and leaves the encrypted file unchanged.
C6_SetAllOrNothing ==
    (Returned /\ op.name = "set" /\ Exists(pre.enc) /\ ~CanDecrypt(op.crypto.cipher, pre.enc))
    => (res = "fail" /\ enc = pre.enc)

\* the key and the value survive the line codec: no "=" or line break in the
\* key, no "#" or blank at its start, no line break in the value, no blank at its end
CodecSafe(key, value) ==
    /\ ~SeqHas(key, "=") /\ ~SeqHas(key, NL)
    /\ (key # <<>> => Head(key) \notin {"#", " "})
    /\ ~SeqHas(value, NL)
    /\ (value # <<>> => value[Len(value)] # " ")

\* a successful set put its entry last if the key was new, in its old slot otherwise
SetPlaced ==
    LET old == Before(op.crypto.cipher)
        new == After(op.crypto.cipher)
        i   == DictIndex(old.dict, op.key)
    IN  /\ new.order = DictKeys(new.dict)
        /\ IF i = 0
           THEN /\ new.order = Append(old.order, op.key)
                /\ new.dict[Len(new.dict)] = <<op.key, op.val>>
           ELSE /\ new.order = old.order
                /\ new.dict[i] = <<op.key, op.val>>

\* C7 as stated: for any key, a set of a key not yet present shows it with its
\* value after all earlier keys, and a set of a present key leaves it where it
\* was with the new value.
C7_SetThenGetAnyKey ==
    (pc = "done" /\ op.name = "set" /\ res = "ok") => SetPlaced

\* C7: the same, for a key and a value that survive the line codec.
C7_SetThenGet ==
    (pc = "done" /\ op.name = "set" /\ res = "ok" /\ CodecSafe(op.key, op.val)) => SetPlaced

C7_Witness ==
    /\ pc = "done" /\ op.name = "set" /\ res = "ok" /\ CodecSafe(op.key, op.val)
    /\ LET old == Before(op.crypto.cipher) IN
       /\ Len(old.order) >= 2
       /\ old.order[1] = op.key
       /\ DictGet(old.dict, op.key) # op.val

\* C8: init and import return failure and leave both files unchanged when the
\* encrypted file exists and force is not given.
C8_NoOverwrite ==
    (op.name \in {"init", "import"} /\ Exists(pre.enc) /\ ~op.force)
    => (pc = "done" /\ res = "fail" /\ enc = pre.enc /\ keyf = pre.keyf)

C8_Witness ==
    /\ pc = "done" /\ op.name = "import" /\ res = "fail"
    /\ pre.enc.st = "ct" /\ ~op.force /\ plain[op.input].ex

\* C9 as stated: after a successful init the file decrypts under the key
\* derived from the password to the source's contents and the key file holds
\* that key.
C9_InitUnderPasswordKey ==
    (pc = "done" /\ op.name = "init" /\ res = "ok")
    => /\ CanDecrypt(DeriveKey(op.pw), enc)
       /\ enc.pt = plain[".env"].text
       /\ keyf = KeyFileOf(DeriveKey(op.pw))

\* C9: after a successful init the file decrypts under the handle's key to the
\* source's contents and the key file holds that key; the key is the one
\* derived from the password if the password is not empty, a fresh random key
\* if it is.
C9_InitUnderHandleKey ==
    (pc = "done" /\ op.name = "init" /\ res = "ok")
    => /\ enc.st = "ct"
       /\ enc.pt = plain[".env"].text
       /\ keyf = KeyFileOf(enc.key)
       /\ enc.key = IF op.pw # "" THEN DeriveKey(op.pw) ELSE RandomKey(nrand)

C9_Witness ==
    /\ pc = "done" /\ op.name = "init" /\ res = "ok"
    /\ op.pw # "" /\ enc.pt = TextMixed

\* C10 as stated: after a successful import a handle built from the import
\* password reads exactly the set parsed from the imported file.
C10_ImportReplacesAnyPassword ==
    (pc = "done" /\ op.name = "import" /\ res = "ok")
    => After(EnvCrypto(op.pw, nrand).cipher) = ParseText(plain[op.input].text)

\* C10: after a successful import a handle built from a non-empty import
\* password, and a handle that loads the key file, read exactly the set parsed
\* from the imported file, nothing of the previous store.
C10_ImportReplaces ==
    (pc = "done" /\ op.name = "import" /\ res = "ok")
    => /\ op.pw # "" => After(DeriveKey(op.pw)) = ParseText(plain[op.input].text)
       /\ After(LoadKeyFromFile(NoCrypto, keyf).crypto.cipher) = ParseText(plain[op.input].text)

C10_Witness ==
    /\ pc = "done" /\ op.name = "import" /\ res = "ok" /\ op.force /\ op.pw # ""
    /\ pre.enc.st = "ct"
    /\ LET old == GetEnvValues(pre.enc.key, pre.enc)
           new == After(DeriveKey(op.pw))
       IN  /\ old.order # <<>> /\ new.order # <<>>
           /\ \A i \in 1..Len(old.order) : ~SeqHas(new.order, old.order[i])

\* the entries and the key order the file holds, read with the key it was written under
Stored(file) == IF file.st = "ct" THEN ParseText(file.pt) ELSE EmptySet

\* the handle of the last handler cannot read the file it found: another key,
\* or a file cut short
Unreadable ==
    \/ pre.enc.st \in {"empty", "partial"}
    \/ pre.enc.st = "ct" /\ pre.enc.key # op.crypto.cipher

\* C15: reading a store written under another key, or truncated, half-written
\* or empty, ends in the failure outcome: decrypt_env_file gives None,
\* get_env_values the empty set, nothing is raised and no file is modified.
C15_ReadFailsCleanly ==
    (op.name = "get" /\ Unreadable)
    => /\ ~DecryptEnvFile(op.crypto.cipher, pre.enc).ok
       /\ op.env = EmptySet
       /\ pc = "done" /\ res # "raise"
       /\ enc = pre.enc /\ keyf = pre.keyf

C15_Witness ==
    /\ pc = "done" /\ op.name = "get"
    /\ pre.enc.st = "ct" /\ pre.enc.key # op.crypto.cipher /\ Stored(pre.enc).order # <<>>

\* C17: get on a store the handle can read reports the stored value of a key
\* the store contains (or its mask) and returns success; it reports "not
\* found" only for a key the store does not contain, and "Failed to decrypt"
\* with a failure outcome when the store cannot be decrypted.
C17_GetReports ==
    (pc = "done" /\ op.name = "get")
    => LET readable == CanDecrypt(op.crypto.cipher, pre.enc)
           held     == Stored(pre.enc).dict
       IN  /\ (readable /\ DictHas(held, op.key))
                => /\ res = "ok" /\ op.out = "value"
                   /\ op.shown \in {DictGet(held, op.key), Mask}
           /\ op.out = "not_found" => (readable /\ ~DictHas(held, op.key))
           /\ ~readable => (op.out = "decrypt_failed" /\ res = "fail")

\* C18: a successful set changes nothing but the entry of its key: every other
\* key the store held keeps its value, and the keys it held keep their
\* relative order.
C18_SetFrame ==
    (pc = "done" /\ op.name = "set" /\ res = "ok")
    => LET old == Stored(pre.enc)
           new == Stored(enc)
       IN  /\ \A i \in 1..Len(old.dict) :
                old.dict[i][1] # op.key
                  => /\ DictHas(new.dict, old.dict[i][1])
                     /\ DictGet(new.dict, old.dict[i][1]) = old.dict[i][2]
           /\ SelectSeq(new.order, LAMBDA k : SeqHas(old.order, k)) = old.order

\* the key order lists every key of the mapping once and nothing else
WellFormed(set) ==
    /\ Len(set.order) = Len(set.dict)
    /\ \A i, j \in 1..Len(set.order) : set.order[i] = set.order[j] => i = j
    /\ \A i \in 1..Len(set.dict) : SeqHas(set.order, set.dict[i][1])
    /\ \A i \in 1..Len(set.order) : DictHas(set.dict, set.order[i])

\* C19: whatever init, import, set and rekey have done, the set that
\* get_env_values returns has every key of the mapping exactly once in its key
\* order and no other key.
C19_ConfigSetInvariant ==
    /\ WellFormed(Stored(enc))
    /\ WellFormed(op.env)
    /\ \A p \in Passwords : WellFormed(GetEnvValues(DeriveKey(p), enc))

C19_Witness ==
    /\ pc = "done" /\ op.name = "rekey" /\ res = "ok"
    /\ pre.enc.pt = TextMixed
    /\ Len(Stored(enc).order) >= 2


(***************************************************************************)
(* The text format, stated on the text itself: where its lines begin, what  *)
(* a line is once its surrounding whitespace is gone, and where its first   *)
(* "=" stands                                                               *)
(***************************************************************************)
LineStarts(text) == {s \in 1..Len(text) : s = 1 \/ text[s - 1] = NL}

LineAt(text, s) ==
    LET ends == {i \in s..Len(text) : text[i] = NL} \cup {Len(text) + 1}
        e    == CHOOSE i \in ends : \A j \in ends : i <= j
    IN  SubSeq(text, s, e - 1)

Trimmed(line) ==
    LET inked == {i \in 1..Len(line) : ~IsSpace(line[i])}
    IN  IF inked = {} THEN <<>>
        ELSE SubSeq(line, CHOOSE i \in inked : \A j \in inked : i <= j,
                          CHOOSE i \in inked : \A j \in inked : j <= i)

FirstEq(line) ==
    CHOOSE i \in 1..Len(line) : line[i] = "=" /\ \A j \in 1..(i - 1) : line[j] # "="

Qualifies(line) ==
    /\ Trimmed(line) # <<>>
    /\ Trimmed(line)[1] # "#"
    /\ \E i \in 1..Len(Trimmed(line)) : Trimmed(line)[i] = "="

KeyOf(line) == SubSeq(Trimmed(line), 1, FirstEq(Trimmed(line)) - 1)

ValueOf(line) == SubSeq(Trimmed(line), FirstEq(Trimmed(line)) + 1, Len(Trimmed(line)))

\* the starts of the qualifying lines of the text, all of them or those of one key
QualifyingLines(text) == {s \in LineStarts(text) : Qualifies(LineAt(text, s))}

LinesOfKey(text, key) == {s \in QualifyingLines(text) : KeyOf(LineAt(text, s)) = key}

Parsed == pure.kind = "text" /\ pure.stage = "parsed"

\* C11: when a key stands on several lines of the text, the parsed set gives it
\* the value of the last of these lines and the place of the first: every key
\* of the set has the value of its last line, and the key order lists every
\* key once, by the first line each stands on.
C11_ParseDuplicates ==
    Parsed =>
      /\ \A i \in 1..Len(pure.out.dict) :
           LET on   == LinesOfKey(pure.text, pure.out.dict[i][1])
               last == CHOOSE s \in on : \A t \in on : t <= s
           IN  on # {} /\ pure.out.dict[i][2] = ValueOf(LineAt(pure.text, last))
      /\ \A i, j \in 1..Len(pure.out.order) :
           LET oni == LinesOfKey(pure.text, pure.out.order[i])
               onj == LinesOfKey(pure.text, pure.out.order[j])
           IN  i < j => \E s \in oni : \A t \in onj : s < t

\* the example of the claim: A=1, B=2, A=3, C=4
C11_Witness ==
    /\ Parsed
    /\ pure.text = <<"A", "=", "1", NL, "B", "=", "2", NL, "A", "=", "3", NL, "C", "=", "4">>
    /\ pure.out.order = <<<<"A">>, <<"B">>, <<"C">>>>
    /\ DictGet(pure.out.dict, <<"A">>) = <<"3">>
    /\ DictGet(pure.out.dict, <<"B">>) = <<"2">>
    /\ DictGet(pure.out.dict, <<"C">>) = <<"4">>

\* C12: parsing any text ends without error and the set has an entry for
\* exactly the lines that, trimmed, are non-empty, do not begin with "#" and
\* hold an "=": the keys of the set, and of its key order, are the keys of
\* these lines, each the text before the first "=", and a key that stands on
\* one line has for value everything after that "=".
C12_ParseQualifyingLines ==
    Parsed =>
      LET keys == {KeyOf(LineAt(pure.text, s)) : s \in QualifyingLines(pure.text)} IN
      /\ {pure.out.dict[i][1] : i \in 1..Len(pure.out.dict)} = keys
      /\ {pure.out.order[i] : i \in 1..Len(pure.out.order)} = keys
      /\ Len(pure.out.dict) = Cardinality(keys)
      /\ Len(pure.out.order) = Cardinality(keys)
      /\ \A s \in QualifyingLines(pure.text) :
           LinesOfKey(pure.text, KeyOf(LineAt(pure.text, s))) = {s}
             => DictGet(pure.out.dict, KeyOf(LineAt(pure.text, s))) = ValueOf(LineAt(pure.text, s))

\* a blank line, an indented comment holding "=", a line without "=" and one entry
C12_Witness ==
    /\ Parsed
    /\ pure.text = Join(<< <<" ">>, <<" ", "#", "A", "=", "5">>, <<"n", "o">>,
                           <<" ", "B", "=", "6", "=", "x", " ">> >>, NL)
    /\ pure.out.dict = << <<<<"B">>, <<"6", "=", "x">>>> >>
    /\ pure.out.order = << <<"B">> >>


RoundTripped == pure.kind = "set" /\ pure.stage = "parsed"

\* the set that came back has the mapping and the key order of the set that went in
SameSet(a, b) ==
    /\ a.order = b.order
    /\ {a.dict[i] : i \in 1..Len(a.dict)} = {b.dict[i] : i \in 1..Len(b.dict)}
    /\ Len(a.dict) = Len(b.dict)

\* C13 as stated: for any ConfigSet in which no key contains "=" and no value
\* contains a newline, parsing its serialisation gives back the same
\* key-to-value mapping and the same key order.
C13_RoundTripAnySet ==
    (/\ RoundTripped
     /\ \A i \in 1..Len(pure.set.dict) :
          ~SeqHas(pure.set.dict[i][1], "=") /\ ~SeqHas(pure.set.dict[i][2], NL))
      => SameSet(pure.out, pure.set)

\* C13 amended: the round trip holds for any ConfigSet whose keys contain no "="
\* and no line break and do not begin with "#" or whitespace, and whose values
\* contain no line break and do not end in whitespace.
C13_RoundTrip ==
    (/\ RoundTripped
     /\ \A i \in 1..Len(pure.set.dict) : CodecSafe(pure.set.dict[i][1], pure.set.dict[i][2]))
      => SameSet(pure.out, pure.set)

\* two entries in an order that is not the alphabetical one, a value holding "="
C13_Witness ==
    /\ RoundTripped
    /\ pure.set.order = << <<"B">>, <<"A">> >>
    /\ DictGet(pure.set.dict, <<"B">>) = <<"1", "=", "2">>
    /\ DictGet(pure.set.dict, <<"A">>) = <<>>
    /\ pure.text = <<"B", "=", "1", "=", "2", NL, "A", "=">>
    /\ SameSet(pure.out, pure.set)

Decrypted == pure.kind = "crypt" /\ pure.stage = "decrypted"

Classified == pure.kind = "name" /\ pure.stage = "classified"

\* the character, whatever its case, is the given lower-case letter
IsLetter(c, low) ==
    c = low \/ \E k \in 1..Len(LowerCase) : LowerCase[k] = low /\ UpperCase[k] = c

\* the word stands somewhere in the name, letter by letter, case set aside
HasWord(name, word) ==
    \E i \in 1..(Len(name) - Len(word) + 1) :
      \A j \in 1..Len(word) : IsLetter(name[i + j - 1], word[j])

\* C16: a key is classified as sensitive if and only if its name, case set
\* aside, contains "password", "secret", "key" or "token", and the two places
\* of the CLI and the one of the menu classify every key alike.
C16_SensitiveKeys ==
    Classified =>
      LET sensitive == \E word \in {WordPassword, WordSecret, WordKey, WordToken} :
                         HasWord(pure.name, word)
      IN  pure.cls = <<sensitive, sensitive, sensitive>>

\* a name in mixed case that all three places mask
C16_Witness ==
    /\ Classified
    /\ pure.name = <<"K", "e", "y">>
    /\ pure.cls = <<TRUE, TRUE, TRUE>>


\* both processes ran a set to its end, on different keys, and both had read
\* the same file, which each could decrypt
BothSetSameStore ==
    /\ pc = "done" /\ op.name = "set"
    /\ w2.pc = "done"
    /\ op.key # w2.key
    /\ w2.read = pre.enc
    /\ CanDecrypt(op.crypto.cipher, pre.enc)
    /\ CanDecrypt(w2.crypto.cipher, pre.enc)

\* C20: two sets on different keys that read the same store both return
\* success, and the file is then the one written by whichever completed its
\* overwrite last: the store both read with that writer's edit and nothing of
\* the other's.
C20_LastWriterWins ==
    BothSetSameStore =>
      LET read == ParseText(pre.enc.pt).dict IN
      /\ res = "ok" /\ w2.res = "ok"
      /\ enc = IF w2.late THEN w2.data ELSE op.data
      /\ enc.pt = IF w2.late THEN SetEnvValueContent(read, w2.key, w2.val)
                  ELSE SetEnvValueContent(read, op.key, op.val)
      /\ LET final == ParseText(enc.pt).dict
             lost  == IF w2.late THEN op.key ELSE w2.key
         IN  /\ DictHas(final, lost) = DictHas(read, lost)
             /\ DictHas(read, lost) => DictGet(final, lost) = DictGet(read, lost)

\* set N=1 and set C=9 overlapped; the second wrote last, and N is still 3
C20_Witness ==
    /\ BothSetSameStore
    /\ pre.enc.pt = TextMixed
    /\ op.key = <<"N">> /\ op.val = <<"1">> /\ res = "ok"
    /\ w2.key = <<"C">> /\ w2.val = <<"9">> /\ w2.res = "ok"
    /\ w2.late
    /\ DictGet(ParseText(enc.pt).dict, <<"N">>) = <<"3">>
    /\ DictGet(ParseText(enc.pt).dict, <<"C">>) = <<"9">>


\* the key file, if it stands next to a store, holds a key that decrypts the store
KeyFileOpens(store_file, key_file) ==
    (Exists(store_file) /\ Exists(key_file))
      => (key_file.st = "key" /\ CanDecrypt(key_file.key, store_file))

\* C21: whenever a key file exists next to the encrypted store after completed
\* operations, the key it holds decrypts the store: an operation that found
\* the two files consistent and completed with success leaves them consistent.
C21_KeyFileConsistent ==
    [][(/\ pc # "done" /\ pc' = "done" /\ res' = "ok"
        /\ KeyFileOpens(pre'.enc, pre'.keyf))
         => KeyFileOpens(enc', keyf')]_vars


\* C22: load_config on an existing store ends in a boolean outcome and never
\* in an uncaught fault: with a password that does not open the store it
\* returns False and leaves the session's password and crypto unset, with one
\* that opens it the session holds the store's mapping and key order.
C22_MenuLoadOutcome ==
    (pc = "done" /\ op.name = "menu_load" /\ Exists(pre.enc)) =>
      /\ res \in {"ok", "fail"}
      /\ ~Opens(op.pw, pre.enc) => (res = "fail" /\ op.pw = "" /\ op.crypto = NoCrypto)
      /\ Opens(op.pw, pre.enc) => op.env = ParseText(pre.enc.pt)


\* the handler's cipher decrypts the store it found, and the plaintext is empty
FoundEmpty == CanDecrypt(op.crypto.cipher, pre.enc) /\ pre.enc.pt = <<>>

\* C23: a store whose plaintext is empty is treated like one that does not
\* decrypt: get_env_values gives the empty set for both, a rekey with the
\* right current password refuses with the decrypt-failure message and leaves
\* the file as it is, and load_encrypted_env returns failure.
C23_EmptyIsFailure ==
    /\ (op.name \in {"get", "load"} /\ (FoundEmpty \/ ~CanDecrypt(op.crypto.cipher, pre.enc)))
         => (op.env = EmptySet /\ (op.name = "load" => pc = "done" /\ res = "fail"))
    /\ (op.name = "rekey" /\ Opens(op.pw, pre.enc) /\ pre.enc.pt = <<>>)
         => (pc = "done" /\ res = "fail" /\ op.out = "decrypt_failed" /\ enc = pre.enc)

\* a rekey, with the right password and two equal new ones, of a store it can
\* decrypt and whose plaintext is empty
C23_Witness ==
    /\ op.name = "rekey" /\ pc = "done"
    /\ Opens(op.pw, pre.enc) /\ pre.enc.pt = <<>>
    /\ op.newpw = op.confirm /\ op.newpw # ""
    /\ res = "fail" /\ enc = pre.enc


\* C24: after construction and any calls of derive_key_from_password,
\* generate_random_key, change_password and load_key_from_file, also those
\* that return False, the cipher of the instance is the one built from its key.
C24_KeyCipherAgree ==
    (pure.kind = "inst" /\ pure.stage # "new") => pure.first.cipher = pure.first.key


\* the handler was given the empty password and loaded no key file
EmptyPasswordOnly ==
    /\ op.name \in {"init", "import", "set", "get", "load", "menu_load"}
    /\ op.pw = ""
    /\ ~(op.usekf /\ Exists(pre.keyf))

\* the handler reads the store, which it found encrypted under a random key
ReadsRandomKeyStore ==
    /\ op.name \in {"set", "get", "load", "menu_load", "rekey", "regen"}
    /\ pre.enc.st = "ct"
    /\ pre.enc.key[1] = "rand"

\* C25: a handle built with the empty password has a freshly generated key,
\* not one derived from the password; so a store encrypted by such a handle is
\* decrypted by a later handle exactly if that handle loads the key file
\* holding the store's key, and by no handle that has a password only, empty
\* or not.
C25_EmptyPasswordRandomKey ==
    /\ EmptyPasswordOnly =>
         (op.crypto.key[1] = "rand" /\ op.crypto.cipher = op.crypto.key
          /\ op.crypto.cipher # pre.enc.key)
    /\ ReadsRandomKeyStore =>
         (CanDecrypt(op.crypto.cipher, pre.enc)
            <=> (op.usekf /\ pre.keyf = KeyFileOf(pre.enc.key)))

\* a get with the empty password and no key file, on a store made with the
\* empty password whose key file is still the one written with it
C25_Witness ==
    /\ pc = "done" /\ op.name = "get"
    /\ EmptyPasswordOnly /\ ~op.usekf
    /\ ReadsRandomKeyStore
    /\ pre.keyf = KeyFileOf(pre.enc.key)
    /\ ~CanDecrypt(op.crypto.cipher, pre.enc)
    /\ op.env = EmptySet

====
